---- MODULE Spec2Model ----
(***************************************************************************)
(* Model of the card economy of bot.py: the four PostgreSQL relations      *)
(* (users, cards, inventory, trades) and the aiogram handlers that read    *)
(* and write them.  Every handler is an asyncio coroutine; each            *)
(* `await conn.<statement>` is one atomic SQL statement (autocommit, no    *)
(* explicit transaction anywhere in bot.py) and a point where another      *)
(* coroutine may run.  A handler is therefore a sequence of actions, one   *)
(* per awaited statement, with its Python locals kept in the task record.  *)
(***************************************************************************)
EXTENDS Integers, Sequences, FiniteSets, TLC

(***************************************************************************)
(* Bounds of the model.                                                    *)
(***************************************************************************)
NumUsers == 3        \* Telegram ids 1..NumUsers
NumTasks == 2        \* handler coroutines in flight at once
MaxTrades == 2       \* rows the trades table may hold
MaxInvArg == 1       \* inventory ids a user may type after "inv#"
NumPlayers == 2      \* users who claim and buy packs
MaxItems == 7        \* rows the inventory table may hold
StartTime == 30      \* the clock when the bot starts (minutes since 1970)
MaxClock == 90       \* the clock stops here
ClockStep == 15      \* minutes between two readings of the clock

UserIds == 1..NumUsers
TaskIds == 1..NumTasks
TradeIds == 1..MaxTrades
InvArgs == 1..MaxInvArg
Players == 1..NumPlayers

(***************************************************************************)
(* Program constants.                                                      *)
(***************************************************************************)
NULL == 0                      \* SQL NULL / Python None (ids are SERIAL >= 1)
COOLDOWN_MINUTES == 30
EPOCH == 0                     \* last_pack DEFAULT '1970-01-01'
FREE_PACK == 5                 \* cards of a free pack
INCOME_PERIOD == 60            \* asyncio.sleep(3600), in minutes
RARITY_DEFAULTS ==
    [common    |-> [weight |-> 60, coins_per_hour |-> 1],
     rare      |-> [weight |-> 25, coins_per_hour |-> 3],
     epic      |-> [weight |-> 10, coins_per_hour |-> 8],
     legendary |-> [weight |-> 5,  coins_per_hour |-> 20]]

\* mapping of cb_buy: callback data -> (count, price)
SHOP == [buy_2  |-> [count |-> 2,  price |-> 20],
         buy_3  |-> [count |-> 3,  price |-> 25],
         buy_10 |-> [count |-> 10, price |-> 60]]

\* the buttons pressed in the model
Buttons == {"buy_2", "buy_3"}

\* rarities, weights = get_weights_and_rarities(): every weight is positive,
\* so random.choices(rarities, weights)[0] may return any rarity; the model
\* rolls these
Rolled == {"common", "epic"}

VARIABLES
    accounts,     \* users: the tg_id values that have a row
    coins,        \* users.coins, by tg_id
    last_pack,    \* users.last_pack, by tg_id (minutes)
    cards,        \* cards: sequence of rows, id = index
    inventory,    \* inventory: sequence of rows, id = index
    trades,       \* trades: sequence of rows, id = index
    tasks,        \* the handler coroutines: pc and locals
    clock,        \* datetime.utcnow(), in minutes
    income        \* hourly_income_task: pc, fetched rows, end of its sleep

vars == <<accounts, coins, last_pack, cards, inventory, trades, tasks, clock,
          income>>

Idle == [pc |-> "idle"]
Done(r) == [pc |-> "done", result |-> r]
Free(k) == tasks[k].pc \in {"idle", "done"}

(***************************************************************************)
(* Tables.                                                                 *)
(***************************************************************************)
\* INSERT INTO users (tg_id) VALUES ($1) ON CONFLICT (tg_id) DO NOTHING
ensure_user(tg_id) ==
    /\ accounts' = accounts \cup {tg_id}
    /\ UNCHANGED <<coins, last_pack>>

\* SELECT user_id FROM inventory WHERE id=$1   (None when there is no row)
OwnerOf(inv_id) ==
    IF inv_id \in DOMAIN inventory THEN inventory[inv_id].user_id ELSE NULL

\* SELECT * FROM trades WHERE id=$1 finds a row (fetchrow is not None)
HasTrade(tr_id) == tr_id \in DOMAIN trades

\* UPDATE trades SET status=$1 WHERE id=$2     (no row: nothing is updated)
SetStatus(status, tr_id) ==
    IF tr_id \in DOMAIN trades
    THEN [trades EXCEPT ![tr_id].status = status]
    ELSE trades

\* UPDATE inventory SET user_id = $1 WHERE id = $2
SetOwner(user_id, inv_id) ==
    IF inv_id \in DOMAIN inventory
    THEN [inventory EXCEPT ![inv_id].user_id = user_id]
    ELSE inventory

(***************************************************************************)
(* msg_trade_offer: "inv#<id> <tg_id>" sent by uid.                        *)
(***************************************************************************)
\* parse the message, then await ensure_user(to_user)
msg_trade_offer(k, uid, inv_id, to_user) ==
    /\ Free(k)
    /\ ensure_user(to_user)
    /\ tasks' = [tasks EXCEPT ![k] =
                    [pc |-> "offer_check", uid |-> uid, inv_id |-> inv_id,
                     to_user |-> to_user]]
    /\ UNCHANGED <<cards, inventory, trades, clock, income>>

\* owner = fetchval(...); if owner != uid: reply and return
offer_check(k) ==
    /\ tasks[k].pc = "offer_check"
    /\ tasks' = [tasks EXCEPT ![k] =
                    IF OwnerOf(tasks[k].inv_id) # tasks[k].uid
                    THEN Done("not_owner")
                    ELSE [tasks[k] EXCEPT !.pc = "offer_insert"]]
    /\ UNCHANGED <<accounts, coins, last_pack, cards, inventory, trades, clock, income>>

\* INSERT INTO trades (from_user, to_user, offered_inventory_id, status)
offer_insert(k) ==
    /\ tasks[k].pc = "offer_insert"
    /\ Len(trades) < MaxTrades
    /\ trades' = Append(trades,
                    [from_user |-> tasks[k].uid, to_user |-> tasks[k].to_user,
                     offered_inventory_id |-> tasks[k].inv_id,
                     requested_inventory_id |-> NULL,
                     status |-> "pending"])
    /\ tasks' = [tasks EXCEPT ![k] = Done("offer_sent")]
    /\ UNCHANGED <<accounts, coins, last_pack, cards, inventory, clock, income>>

(***************************************************************************)
(* cb_trade_accept: button "trade_accept:<tr_id>" pressed by uid.          *)
(***************************************************************************)
\* the recipient test of cb_trade_accept, made against the offerer's column
NotRecipientOtherColumn(tr, uid) == tr.from_user # uid

\* the recipient test of cb_trade_accept
NotRecipient(tr, uid) == tr.to_user # uid

\* tr = fetchrow(...); the two early returns
cb_trade_accept(k, uid, tr_id) ==
    /\ Free(k)
    /\ tasks' = [tasks EXCEPT ![k] =
                    IF ~HasTrade(tr_id) THEN Done("not_found")
                    ELSE IF NotRecipient(trades[tr_id], uid)
                    THEN Done("not_recipient")
                    ELSE [pc |-> "accept_transfer", uid |-> uid,
                          tr_id |-> tr_id, tr |-> trades[tr_id]]]
    /\ UNCHANGED <<accounts, coins, last_pack, cards, inventory, trades, clock, income>>

\* the first argument of the UPDATE inventory of cb_trade_accept, taken from
\* another column of the fetched row
NewOwnerOtherColumn(tr) == tr.requested_inventory_id

\* the first argument of the UPDATE inventory of cb_trade_accept
NewOwner(tr) == tr.to_user

\* UPDATE inventory SET user_id = tr['to_user'] WHERE id = tr['offered_inventory_id']
accept_transfer(k) ==
    /\ tasks[k].pc = "accept_transfer"
    /\ inventory' = SetOwner(NewOwner(tasks[k].tr),
                             tasks[k].tr.offered_inventory_id)
    /\ tasks' = [tasks EXCEPT ![k].pc = "accept_status"]
    /\ UNCHANGED <<accounts, coins, last_pack, cards, trades, clock, income>>

\* UPDATE trades SET status='accepted' WHERE id=tr_id
accept_status(k) ==
    /\ tasks[k].pc = "accept_status"
    /\ trades' = SetStatus("accepted", tasks[k].tr_id)
    /\ tasks' = [tasks EXCEPT ![k] = Done("accepted")]
    /\ UNCHANGED <<accounts, coins, last_pack, cards, inventory, clock, income>>

(***************************************************************************)
(* cb_trade_reject: button "trade_reject:<tr_id>" pressed by uid.          *)
(***************************************************************************)
\* parse the callback data, then await DB_POOL.acquire()
cb_trade_reject(k, uid, tr_id) ==
    /\ Free(k)
    /\ tasks' = [tasks EXCEPT ![k] =
                    [pc |-> "reject_update", uid |-> uid, tr_id |-> tr_id]]
    /\ UNCHANGED <<accounts, coins, last_pack, cards, inventory, trades, clock, income>>

\* UPDATE trades SET status='rejected' WHERE id=tr_id; reply
reject_update(k) ==
    /\ tasks[k].pc = "reject_update"
    /\ trades' = SetStatus("rejected", tasks[k].tr_id)
    /\ tasks' = [tasks EXCEPT ![k] = Done("rejected")]
    /\ UNCHANGED <<accounts, coins, last_pack, cards, inventory, clock, income>>

(***************************************************************************)
(* The pack draw, shared by the free pack and the shop.                    *)
(***************************************************************************)
\* ids of the first n rows of cards that have the rarity
CardsOf(rarity, n) == {c \in 1..n : cards[c].rarity = rarity}

\* by_rarity.get(rarity) or list(cards)  /  [c for c in cards if ...] or cards
Bucket(rarity, n) ==
    IF CardsOf(rarity, n) # {} THEN CardsOf(rarity, n) ELSE 1..n

\* INSERT INTO cards (name, rarity, coins_per_hour) VALUES (.., rarity, default)
NewCard(rarity) ==
    [rarity |-> rarity,
     coins_per_hour |-> RARITY_DEFAULTS[rarity].coins_per_hour]

\* INSERT INTO inventory (user_id, card_id) VALUES ($1,$2)
InsertItem(uid, card_id) ==
    Append(inventory, [user_id |-> uid, card_id |-> card_id])

\* inventory rows a handler in its draw loop has still to insert
Remaining(k) ==
    IF tasks[k].pc \in {"free_bulk", "free_pick", "free_create", "free_insert"}
    THEN FREE_PACK - tasks[k].i
    ELSE IF tasks[k].pc \in {"buy_slot", "buy_insert"}
    THEN tasks[k].count - tasks[k].i
    ELSE 0

RECURSIVE SumRemaining(_)
SumRemaining(ks) ==
    IF ks = {} THEN 0
    ELSE LET k == CHOOSE x \in ks : TRUE
         IN  Remaining(k) + SumRemaining(ks \ {k})

\* the inventory table has room for a draw of count more rows
Room(count) == Len(inventory) + SumRemaining(TaskIds) + count <= MaxItems

(***************************************************************************)
(* cb_free_pack: button "free_pack" pressed by uid.                        *)
(***************************************************************************)
FreeTask(pc, uid, now, n, i, rarity, c) ==
    [pc |-> pc, uid |-> uid, now |-> now, n |-> n, i |-> i,
     rarity |-> rarity, c |-> c]

\* await ensure_user(uid); now = datetime.utcnow()
cb_free_pack(k, uid) ==
    /\ Free(k)
    /\ ensure_user(uid)
    /\ tasks' = [tasks EXCEPT ![k] =
                    FreeTask("free_check", uid, clock, 0, 0, "", NULL)]
    /\ UNCHANGED <<cards, inventory, trades, clock, income>>

\* the cooldown test of cb_free_pack, measured from 1970 whatever was read
InCooldownFromEpoch(now, last) == now - EPOCH < COOLDOWN_MINUTES

\* now - last_dt < timedelta(minutes=COOLDOWN_MINUTES)
InCooldown(now, last) ==
    now - (IF last = NULL THEN EPOCH ELSE last) < COOLDOWN_MINUTES

\* last = fetchval('SELECT last_pack ...'); the cooldown test and its return
free_check(k) ==
    /\ tasks[k].pc = "free_check"
    /\ tasks' = [tasks EXCEPT ![k] =
                    IF InCooldown(tasks[k].now, last_pack[tasks[k].uid])
                    THEN Done("cooldown")
                    ELSE [tasks[k] EXCEPT !.pc = "free_stamp"]]
    /\ UNCHANGED <<accounts, coins, last_pack, cards, inventory, trades, clock,
                   income>>

\* UPDATE users SET last_pack=now WHERE tg_id=uid
free_stamp(k) ==
    /\ tasks[k].pc = "free_stamp"
    /\ last_pack' = [last_pack EXCEPT ![tasks[k].uid] = tasks[k].now]
    /\ tasks' = [tasks EXCEPT ![k].pc = "free_cards"]
    /\ UNCHANGED <<accounts, coins, cards, inventory, trades, clock, income>>

\* cards = fetch('SELECT ... FROM cards'); if len(cards) >= 5: ... else: ...
free_cards(k) ==
    /\ tasks[k].pc = "free_cards"
    /\ Room(FREE_PACK)
    /\ tasks' = [tasks EXCEPT ![k] =
                    [tasks[k] EXCEPT !.n = Len(cards),
                                     !.pc = IF Len(cards) >= FREE_PACK
                                            THEN "free_bulk" ELSE "free_pick"]]
    /\ UNCHANGED <<accounts, coins, last_pack, cards, inventory, trades, clock,
                   income>>

\* the task after one more inventory row of its free pack
FreeNext(t, pc) ==
    IF t.i + 1 = FREE_PACK
    THEN Done("pack")
    ELSE [t EXCEPT !.i = t.i + 1, !.pc = pc, !.rarity = "", !.c = NULL]

\* one slot of the loop over the fetched cards: roll, choose from the bucket,
\* INSERT INTO inventory
free_bulk(k) ==
    /\ tasks[k].pc = "free_bulk"
    /\ \E rarity \in Rolled :
         \E choice \in Bucket(rarity, tasks[k].n) :
            inventory' = InsertItem(tasks[k].uid, choice)
    /\ tasks' = [tasks EXCEPT ![k] = FreeNext(tasks[k], "free_bulk")]
    /\ UNCHANGED <<accounts, coins, last_pack, cards, trades, clock, income>>

\* one slot of the other loop: roll, then
\* SELECT ... FROM cards WHERE rarity=$1 ORDER BY random() LIMIT 1
free_rolled(k, rarity) ==
    /\ tasks[k].pc = "free_pick"
    /\ IF CardsOf(rarity, Len(cards)) = {}
       THEN tasks' = [tasks EXCEPT ![k] =
               [tasks[k] EXCEPT !.pc = "free_create", !.rarity = rarity]]
       ELSE \E c \in CardsOf(rarity, Len(cards)) :
               tasks' = [tasks EXCEPT ![k] =
                  [tasks[k] EXCEPT !.pc = "free_insert", !.c = c]]
    /\ UNCHANGED <<accounts, coins, last_pack, cards, inventory, trades, clock,
                   income>>

\* rarity = random.choices(rarities, weights)[0], then the SELECT
free_pick(k) == \E rarity \in Rolled : free_rolled(k, rarity)

\* if not c: INSERT INTO cards ... RETURNING id
free_create(k) ==
    /\ tasks[k].pc = "free_create"
    /\ cards' = Append(cards, NewCard(tasks[k].rarity))
    /\ tasks' = [tasks EXCEPT ![k] =
                    [tasks[k] EXCEPT !.pc = "free_insert", !.rarity = "",
                                     !.c = Len(cards) + 1]]
    /\ UNCHANGED <<accounts, coins, last_pack, inventory, trades, clock, income>>

\* INSERT INTO inventory (user_id, card_id) VALUES (uid, c['id'])
free_insert(k) ==
    /\ tasks[k].pc = "free_insert"
    /\ inventory' = InsertItem(tasks[k].uid, tasks[k].c)
    /\ tasks' = [tasks EXCEPT ![k] = FreeNext(tasks[k], "free_pick")]
    /\ UNCHANGED <<accounts, coins, last_pack, cards, trades, clock, income>>

(***************************************************************************)
(* cb_buy / _buy_pack: button "buy_<n>" pressed by uid.                    *)
(***************************************************************************)
BuyTask(pc, uid, count, price, n, i, c) ==
    [pc |-> pc, uid |-> uid, count |-> count, price |-> price, n |-> n,
     i |-> i, c |-> c]

\* the balance test of _buy_pack, refusing a balance equal to the price
InsufficientOrEqual(uid, price) == uid \notin accounts \/ coins[uid] <= price

\* the balance test of _buy_pack, comparing the balance with zero
InsufficientBelowZero(uid, price) == uid \notin accounts \/ coins[uid] < 0

\* coins is None or coins < price
Insufficient(uid, price) == uid \notin accounts \/ coins[uid] < price

\* count, price = mapping[call.data]; coins = fetchval('SELECT coins ...');
\* the balance test and its return
cb_buy(k, uid, data) ==
    /\ Free(k)
    /\ tasks' = [tasks EXCEPT ![k] =
                    IF Insufficient(uid, SHOP[data].price)
                    THEN Done("no_coins")
                    ELSE BuyTask("buy_debit", uid, SHOP[data].count,
                                 SHOP[data].price, 0, 0, NULL)]
    /\ UNCHANGED <<accounts, coins, last_pack, cards, inventory, trades, clock,
                   income>>

\* UPDATE users SET coins = coins - price WHERE tg_id = uid
buy_debit(k) ==
    /\ tasks[k].pc = "buy_debit"
    /\ coins' = [coins EXCEPT ![tasks[k].uid] = @ - tasks[k].price]
    /\ tasks' = [tasks EXCEPT ![k].pc = "buy_cards"]
    /\ UNCHANGED <<accounts, last_pack, cards, inventory, trades, clock, income>>

\* cards = fetch('SELECT ... FROM cards')
buy_cards(k) ==
    /\ tasks[k].pc = "buy_cards"
    /\ Room(tasks[k].count)
    /\ tasks' = [tasks EXCEPT ![k] =
                    [tasks[k] EXCEPT !.pc = "buy_slot", !.n = Len(cards)]]
    /\ UNCHANGED <<accounts, coins, last_pack, cards, inventory, trades, clock,
                   income>>

\* the task after one more inventory row of its pack, the loop ending one
\* row early
BuyNextOneShort(t) ==
    IF t.i + 2 >= t.count
    THEN Done("bought")
    ELSE [t EXCEPT !.i = t.i + 1, !.pc = "buy_slot", !.c = NULL]

\* the task after one more inventory row of its pack
BuyNext(t) ==
    IF t.i + 1 = t.count
    THEN Done("bought")
    ELSE [t EXCEPT !.i = t.i + 1, !.pc = "buy_slot", !.c = NULL]

\* if cards: roll, choose from the bucket, INSERT INTO inventory
buy_rolled(k, rarity) ==
    /\ tasks[k].pc = "buy_slot"
    /\ tasks[k].n > 0
    /\ \E choice \in Bucket(rarity, tasks[k].n) :
          inventory' = InsertItem(tasks[k].uid, choice)
    /\ tasks' = [tasks EXCEPT ![k] = BuyNext(tasks[k])]
    /\ UNCHANGED <<accounts, coins, last_pack, cards, trades, clock, income>>

\* rarity = random.choices(rarities, weights)[0], then the slot
buy_choice(k) == \E rarity \in Rolled : buy_rolled(k, rarity)

\* else: r = random.choice(rarities); INSERT INTO cards ... RETURNING id
buy_create(k) ==
    /\ tasks[k].pc = "buy_slot"
    /\ tasks[k].n = 0
    /\ \E r \in Rolled : cards' = Append(cards, NewCard(r))
    /\ tasks' = [tasks EXCEPT ![k] =
                    [tasks[k] EXCEPT !.pc = "buy_insert", !.c = Len(cards) + 1]]
    /\ UNCHANGED <<accounts, coins, last_pack, inventory, trades, clock, income>>

\* INSERT INTO inventory (user_id, card_id) VALUES (uid, c['id'])
buy_insert(k) ==
    /\ tasks[k].pc = "buy_insert"
    /\ inventory' = InsertItem(tasks[k].uid, tasks[k].c)
    /\ tasks' = [tasks EXCEPT ![k] = BuyNext(tasks[k])]
    /\ UNCHANGED <<accounts, coins, last_pack, cards, trades, clock, income>>

\* an INSERT of the draw raises (asyncpg error, connection lost): the
\* exception leaves the loop, `async with` releases the connection, and
\* _buy_pack and cb_buy have no try/except and no transaction: what was
\* written stays written, the handler ends
buy_raise(k) ==
    /\ tasks[k].pc \in {"buy_slot", "buy_insert"}
    /\ tasks' = [tasks EXCEPT ![k] = Done("error")]
    /\ UNCHANGED <<accounts, coins, last_pack, cards, inventory, trades, clock,
                   income>>

(***************************************************************************)
(* hourly_income_task / give_passive_income_all.                           *)
(***************************************************************************)
RECURSIVE SumIncome(_, _)
\* SUM(c.coins_per_hour) over the first n inventory rows of tg_id
SumIncome(tg_id, n) ==
    IF n = 0 THEN 0
    ELSE SumIncome(tg_id, n - 1)
         + (IF inventory[n].user_id = tg_id
            THEN cards[inventory[n].card_id].coins_per_hour ELSE 0)

\* the query of give_passive_income_all with COUNT(i.id) for the SUM
IncomeRowsCounted ==
    {[tg_id |-> u,
      income |-> Cardinality({i \in DOMAIN inventory :
                                 inventory[i].user_id = u})] : u \in accounts}

\* SELECT u.tg_id, COALESCE(SUM(c.coins_per_hour),0) AS income ... GROUP BY
IncomeRows ==
    {[tg_id |-> u, income |-> SumIncome(u, Len(inventory))] : u \in accounts}

\* the sleep is over: rows = fetch(...)
income_fetch ==
    /\ income.pc = "sleep"
    /\ clock >= income.wake_at
    /\ income' = [income EXCEPT !.pc = "credit", !.rows = IncomeRows]
    /\ UNCHANGED <<accounts, coins, last_pack, cards, inventory, trades, tasks,
                   clock>>

\* the credit of give_passive_income_all with the income computed again,
\* from the inventory as it is when the credit is written
income_credit_recomputed ==
    /\ income.pc = "credit"
    /\ \E r \in income.rows :
         /\ r.income > 0
         /\ coins' = [coins EXCEPT ![r.tg_id] =
                         @ + SumIncome(r.tg_id, Len(inventory))]
         /\ income' = [income EXCEPT !.rows = @ \ {r}]
    /\ UNCHANGED <<accounts, last_pack, cards, inventory, trades, tasks, clock>>

\* if r['income'] > 0: UPDATE users SET coins = coins + income WHERE tg_id = ..
income_credit ==
    /\ income.pc = "credit"
    /\ \E r \in income.rows :
         /\ r.income > 0
         /\ coins' = [coins EXCEPT ![r.tg_id] = @ + r.income]
         /\ income' = [income EXCEPT !.rows = @ \ {r}]
    /\ UNCHANGED <<accounts, last_pack, cards, inventory, trades, tasks, clock>>

\* the loop is over: await asyncio.sleep(3600)
income_sleep ==
    /\ income.pc = "credit"
    /\ \A r \in income.rows : r.income <= 0
    /\ income' = [pc |-> "sleep", rows |-> {},
                  wake_at |-> clock + INCOME_PERIOD]
    /\ UNCHANGED <<accounts, coins, last_pack, cards, inventory, trades, tasks,
                   clock>>

\* the UPDATE of a row raises: the exception leaves the for loop and
\* give_passive_income_all (no try/except there); hourly_income_task catches
\* it, prints it and goes to sleep
income_raise ==
    /\ income.pc = "credit"
    /\ \E r \in income.rows : r.income > 0
    /\ income' = [pc |-> "sleep", rows |-> {},
                  wake_at |-> clock + INCOME_PERIOD]
    /\ UNCHANGED <<accounts, coins, last_pack, cards, inventory, trades, tasks,
                   clock>>

\* time passes
Tick ==
    /\ clock + ClockStep <= MaxClock
    /\ clock' = clock + ClockStep
    /\ UNCHANGED <<accounts, coins, last_pack, cards, inventory, trades, tasks,
                   income>>

(***************************************************************************)
(* The specifications.  The free pack writes users.last_pack, the shop     *)
(* and the hourly income write users.coins, the trade handlers write       *)
(* trades and inventory.user_id; cards and inventory rows are only ever    *)
(* appended.  Each group of handlers is run on its own, concurrently with  *)
(* itself, from database states the other groups leave behind: SpecPacks,  *)
(* SpecShop, SpecTrade; then SpecFaults (the shop when a statement may     *)
(* raise), SpecDraws (free pack and purchase of one account) and           *)
(* SpecAccrual (one accrual tick among offers and accepts).                *)
(***************************************************************************)

(***************************************************************************)
(* Free packs: the database init_db creates (every table empty), or that   *)
(* database after an admin uploaded one card or five cards                 *)
(* (msg_admin_upload_card).                                                *)
(***************************************************************************)
AdminCatalog ==
    <<NewCard("common"), NewCard("epic"), NewCard("rare"), NewCard("rare"),
      NewCard("legendary")>>

InitPacks ==
    /\ accounts = {}
    /\ coins = [u \in UserIds |-> 0]
    /\ clock = StartTime
    /\ last_pack = [u \in UserIds |-> EPOCH]
    /\ cards \in {<<>>, SubSeq(AdminCatalog, 1, 1), AdminCatalog}
    /\ inventory = <<>>
    /\ trades = <<>>
    /\ tasks = [k \in TaskIds |-> Idle]
    /\ income = [pc |-> "sleep", rows |-> {}, wake_at |-> clock]

NextPacks ==
    \/ \E k \in TaskIds :
        \/ \E uid \in Players : cb_free_pack(k, uid)
        \/ free_check(k)
        \/ free_stamp(k)
        \/ free_cards(k)
        \/ free_bulk(k)
        \/ free_pick(k)
        \/ free_create(k)
        \/ free_insert(k)
    \/ Tick

SpecPacks == InitPacks /\ [][NextPacks]_vars

(***************************************************************************)
(* Shop and hourly income, the bot just started, on a database where       *)
(*  - user 1 opened a free pack on the empty catalog, every roll "epic",   *)
(*    and gave the last card of it to user 2 (offer 1, accepted); or       *)
(*  - user 1 holds the price of a pack while the cards table is empty      *)
(*    (rows of cards removed: ON DELETE CASCADE empties the inventory      *)
(*    with them and leaves users.coins).                                   *)
(***************************************************************************)
InitShop ==
    /\ clock = StartTime
    /\ tasks = [k \in TaskIds |-> Idle]
    /\ income = [pc |-> "sleep", rows |-> {}, wake_at |-> clock]
    /\ \/ /\ accounts = {1, 2}
          /\ coins = [u \in UserIds |-> 0]
          /\ last_pack = [u \in UserIds |-> IF u = 1 THEN clock ELSE EPOCH]
          /\ cards = <<NewCard("epic")>>
          /\ inventory = [i \in 1..FREE_PACK |->
                [user_id |-> IF i = FREE_PACK THEN 2 ELSE 1, card_id |-> 1]]
          /\ trades = <<[from_user |-> 1, to_user |-> 2,
                         offered_inventory_id |-> FREE_PACK,
                         requested_inventory_id |-> NULL,
                         status |-> "accepted"]>>
       \/ /\ accounts = {1}
          /\ coins = [u \in UserIds |-> IF u = 1 THEN SHOP["buy_2"].price ELSE 0]
          /\ last_pack = [u \in UserIds |-> EPOCH]
          /\ cards = <<>>
          /\ inventory = <<>>
          /\ trades = <<>>

NextShop ==
    \/ \E k \in TaskIds :
        \/ \E uid \in Players, data \in Buttons : cb_buy(k, uid, data)
        \/ buy_debit(k)
        \/ buy_cards(k)
        \/ buy_choice(k)
        \/ buy_create(k)
        \/ buy_insert(k)
    \/ income_fetch
    \/ income_credit
    \/ income_sleep
    \/ Tick

SpecShop == InitShop /\ [][NextShop]_vars

(***************************************************************************)
(* The shop and the hourly income when a statement may raise: an INSERT of *)
(* the draw of a purchase, the UPDATE of a credit.                         *)
(***************************************************************************)
NextFaults ==
    \/ NextShop
    \/ \E k \in TaskIds : buy_raise(k)
    \/ income_raise

SpecFaults == InitShop /\ [][NextFaults]_vars

(***************************************************************************)
(* The trade handlers, on the database as one free pack of user 1 on the   *)
(* empty catalog left it (every roll "common").                            *)
(***************************************************************************)

InitTrade ==
    /\ accounts = {1}
    /\ coins = [u \in UserIds |-> 0]
    /\ clock = StartTime
    /\ last_pack = [u \in UserIds |-> IF u = 1 THEN clock ELSE EPOCH]
    /\ cards = <<NewCard("common")>>
    /\ inventory = [i \in 1..FREE_PACK |-> [user_id |-> 1, card_id |-> 1]]
    /\ trades = <<>>
    /\ tasks = [k \in TaskIds |-> Idle]
    /\ income = [pc |-> "sleep", rows |-> {}, wake_at |-> clock]

NextTrade ==
    \E k \in TaskIds :
        \/ \E uid \in UserIds, inv_id \in InvArgs, to_user \in UserIds :
              msg_trade_offer(k, uid, inv_id, to_user)
        \/ offer_check(k)
        \/ offer_insert(k)
        \/ \E uid \in UserIds, tr_id \in TradeIds : cb_trade_accept(k, uid, tr_id)
        \/ accept_transfer(k)
        \/ accept_status(k)
        \/ \E uid \in UserIds, tr_id \in TradeIds : cb_trade_reject(k, uid, tr_id)
        \/ reject_update(k)

SpecTrade == InitTrade /\ [][NextTrade]_vars

(***************************************************************************)
(* The two pack draws side by side: free packs and purchases of the user   *)
(* who has an account, on the databases of InitPacks, where account 1      *)
(* holds the price of two cards.                                           *)
(***************************************************************************)
InitDraws ==
    /\ accounts = {1}
    /\ coins = [u \in UserIds |-> IF u = 1 THEN SHOP["buy_2"].price ELSE 0]
    /\ clock = StartTime
    /\ last_pack = [u \in UserIds |-> EPOCH]
    /\ cards \in {<<>>, SubSeq(AdminCatalog, 1, 1), AdminCatalog}
    /\ inventory = <<>>
    /\ trades = <<>>
    /\ tasks = [k \in TaskIds |-> Idle]
    /\ income = [pc |-> "sleep", rows |-> {}, wake_at |-> clock]

NextDraws ==
    \E k \in TaskIds :
        \/ \E uid \in accounts : cb_free_pack(k, uid)
        \/ free_check(k)
        \/ free_stamp(k)
        \/ free_cards(k)
        \/ free_bulk(k)
        \/ free_pick(k)
        \/ free_create(k)
        \/ free_insert(k)
        \/ \E uid \in accounts, data \in Buttons : cb_buy(k, uid, data)
        \/ buy_debit(k)
        \/ buy_cards(k)
        \/ buy_choice(k)
        \/ buy_create(k)
        \/ buy_insert(k)

SpecDraws == InitDraws /\ [][NextDraws]_vars

(***************************************************************************)
(* One accrual tick while cards are offered and accepted, on the database  *)
(* of InitTrade: the clock stands still, so the hourly task wakes once.    *)
(***************************************************************************)
NextAccrual ==
    \/ \E k \in TaskIds :
        \/ \E uid \in UserIds, inv_id \in InvArgs, to_user \in UserIds :
              msg_trade_offer(k, uid, inv_id, to_user)
        \/ offer_check(k)
        \/ offer_insert(k)
        \/ \E uid \in UserIds, tr_id \in TradeIds : cb_trade_accept(k, uid, tr_id)
        \/ accept_transfer(k)
        \/ accept_status(k)
    \/ income_fetch
    \/ income_credit
    \/ income_sleep

SpecAccrual == InitTrade /\ [][NextAccrual]_vars

(***************************************************************************)
(* Properties of the shop (checked under SpecShop) and of the free pack    *)
(* (checked under SpecPacks).                                              *)
(***************************************************************************)
\* C1: in every reachable state every account's coin balance is >= 0,
\* whatever the interleaving of purchases and accrual ticks.
C1_BalanceNeverNegative == \A u \in UserIds : coins[u] >= 0

\* C2: two successful free-pack claims of one account are stamped at least
\* COOLDOWN_MINUTES apart: every claim that stamps last_pack stamps a time at
\* least COOLDOWN_MINUTES after the stamp of the account's previous
\* successful claim.
C2_ClaimsSpacedByCooldown ==
    [][\A k \in TaskIds :
          free_stamp(k)
              => tasks[k].now - last_pack[tasks[k].uid] >= COOLDOWN_MINUTES]_vars

\* C11 (under SpecFaults): when an insert of the draw of a purchase raises
\* after the debit, the debit is rolled back and no item of the partial
\* draw remains: the step that ends the handler gives the price back and
\* removes the rows the draw inserted.
C11_FailedDrawRollsBack ==
    [][\A k \in TaskIds :
          buy_raise(k)
              => /\ coins'[tasks[k].uid] = coins[tasks[k].uid] + tasks[k].price
                 /\ Len(inventory') = Len(inventory) - tasks[k].i]_vars

\* C12: a purchase by an account whose balance is >= price is not refused
\* and goes on to the debit; the debit decreases that account's balance by
\* exactly price and changes no other account's balance.
C12_PurchaseDebitsPrice ==
    [][\A k \in TaskIds :
          /\ \A uid \in Players, data \in Buttons :
                (/\ cb_buy(k, uid, data)
                 /\ uid \in accounts
                 /\ coins[uid] >= SHOP[data].price)
                    => /\ tasks'[k].pc = "buy_debit"
                       /\ tasks'[k].uid = uid
                       /\ tasks'[k].price = SHOP[data].price
                       /\ tasks'[k].count = SHOP[data].count
          /\ buy_debit(k)
                => /\ coins'[tasks[k].uid] = coins[tasks[k].uid] - tasks[k].price
                   /\ \A u \in UserIds \ {tasks[k].uid} : coins'[u] = coins[u]]_vars

\* C12 witness: no other handler has run, the account held exactly the price
\* of the pack, and the purchase has debited it: the balance is 0.
C12_Witness ==
    \E k \in TaskIds :
        /\ tasks[k].pc = "buy_cards"
        /\ coins[tasks[k].uid] = 0
        /\ \A j \in TaskIds \ {k} : tasks[j] = Idle
        /\ income.pc = "sleep"

\* C13: a purchase by an account whose balance is < price, or by a user who
\* has no account row, is refused and changes nothing: the accounts, the
\* balances, the inventory and the card catalog are unchanged.
C13_RefusedPurchaseMutatesNothing ==
    [][\A k \in TaskIds : \A uid \in Players, data \in Buttons :
          (/\ cb_buy(k, uid, data)
           /\ (uid \notin accounts \/ coins[uid] < SHOP[data].price))
              => /\ tasks'[k] = Done("no_coins")
                 /\ UNCHANGED <<accounts, coins, last_pack, inventory, cards>>]_vars

\* C13 witness: a purchase has been refused, of user 2 who has no account
\* row or of user 1 who holds less than the price of three cards; user 1
\* still holds the 20 coins and nothing was granted.
C13_Witness ==
    /\ \E k \in TaskIds : tasks[k] = Done("no_coins")
    /\ accounts = {1}
    /\ coins[1] = SHOP["buy_2"].price
    /\ inventory = <<>>
    /\ cards = <<>>

\* C14: a free-pack claim made less than COOLDOWN_MINUTES after the stamp of
\* the account's last successful claim is refused and changes nothing: the
\* accounts, last_pack, the inventory and the card catalog are unchanged, by
\* the ensure_user that opens the handler and by the cooldown test alike.
C14_CooldownClaimMutatesNothing ==
    [][\A k \in TaskIds :
          /\ \A uid \in Players :
                (cb_free_pack(k, uid) /\ last_pack[uid] # EPOCH)
                    => UNCHANGED <<accounts, coins, last_pack, inventory, cards>>
          /\ (/\ free_check(k)
              /\ tasks[k].now - last_pack[tasks[k].uid] < COOLDOWN_MINUTES)
                => /\ tasks'[k] = Done("cooldown")
                   /\ UNCHANGED <<accounts, coins, last_pack, inventory,
                                  cards>>]_vars

\* C14 witness: the account of the pack that was drawn has claimed again
\* within the cooldown and was refused; its stamp is still that of the pack.
C14_Witness ==
    \E k \in TaskIds, u \in Players :
        /\ tasks[k] = Done("cooldown")
        /\ Len(inventory) = FREE_PACK
        /\ \A i \in DOMAIN inventory : inventory[i].user_id = u
        /\ last_pack[u] = StartTime
        /\ clock > StartTime
        /\ \A v \in Players \ {u} : last_pack[v] = EPOCH

(***************************************************************************)
(* Properties of the hourly income (checked under SpecShop, C18 under      *)
(* SpecFaults).                                                            *)
(***************************************************************************)
\* the items an account owns
ItemsOf(u) == {i \in DOMAIN inventory : inventory[i].user_id = u}

RECURSIVE SumOfItems(_)
SumOfItems(items) ==
    IF items = {} THEN 0
    ELSE LET i == CHOOSE x \in items : TRUE
         IN  cards[inventory[i].card_id].coins_per_hour
                + SumOfItems(items \ {i})

\* the sum of coins_per_hour over the items an account owns
OwnedIncome(u) == SumOfItems(ItemsOf(u))

\* the account's row of the tick has been credited
Credited(u) ==
    /\ income.pc = "credit"
    /\ \A r \in income.rows : r.tg_id # u

\* whole ticks that fit between StartTime and MaxClock
MaxTicks == (MaxClock - StartTime) \div INCOME_PERIOD + 1

\* C16: one accrual tick with no other operation interleaved increases every
\* account's balance by exactly the sum of coins_per_hour over the items
\* the account owns and leaves an account that owns no item untouched: the
\* tick reads that sum for every account, credits an account only with a
\* positive sum, once and with that sum, touching no other balance, and
\* ends when no positive sum is left; so while no handler has run, every
\* owner's balance is a whole number of its sums.
C16_TickCreditsOwnedIncome ==
    /\ [][/\ income_fetch
              => income'.rows = {[tg_id |-> u, income |-> OwnedIncome(u)] :
                                    u \in accounts}
          /\ income_credit
              => \E r \in income.rows :
                    /\ r.income > 0
                    /\ income'.rows = income.rows \ {r}
                    /\ coins'[r.tg_id] = coins[r.tg_id] + r.income
                    /\ \A u \in UserIds \ {r.tg_id} : coins'[u] = coins[u]
          /\ income_sleep
              => /\ \A r \in income.rows : r.income = 0
                 /\ coins' = coins]_vars
    /\ [](\A r1, r2 \in income.rows : r1.tg_id = r2.tg_id => r1 = r2)
    /\ []((\A k \in TaskIds : tasks[k] = Idle)
            => \E n \in 0..MaxTicks :
                  \A u \in accounts :
                     OwnedIncome(u) > 0
                        => coins[u] = (n + IF Credited(u) THEN 1 ELSE 0)
                                        * OwnedIncome(u))

\* C16 witness: no handler has run and the first tick is over: account 1,
\* which owns four cards of 8 coins an hour, holds 32 coins, account 2,
\* which owns one, holds 8.
C16_Witness ==
    /\ \A k \in TaskIds : tasks[k] = Idle
    /\ income.pc = "sleep"
    /\ income.wake_at > StartTime
    /\ OwnedIncome(1) = 32 /\ coins[1] = 32
    /\ OwnedIncome(2) = 8 /\ coins[2] = 8

\* C18: a credit that fails during an accrual tick does not abort the
\* sweep: every other account with positive income is still credited in
\* that tick, so when the tick ends at most the one row whose credit failed
\* is left uncredited.
C18_FailedCreditDoesNotAbort ==
    [][(income.pc = "credit" /\ income'.pc = "sleep")
          => Cardinality({r \in income.rows : r.income > 0}) <= 1]_vars

RECURSIVE SumOfRows(_)
SumOfRows(rows) ==
    IF rows = {} THEN 0
    ELSE LET r == CHOOSE x \in rows : TRUE
         IN  r.income + SumOfRows(rows \ {r})

RECURSIVE SumOfCoins(_)
SumOfCoins(us) ==
    IF us = {} THEN 0
    ELSE LET u == CHOOSE x \in us : TRUE
         IN  coins[u] + SumOfCoins(us \ {u})

\* C20 (under SpecAccrual, where every balance starts at 0 and only the one
\* tick writes balances): within the tick each inventory item's income is
\* credited to exactly one account, whatever trade acceptance moves an item
\* while the credits are written: what has been credited and what the rows
\* of the snapshot still hold add up to the income of all the items, and
\* when the tick is over the balances add up to it.
C20_ItemIncomeCreditedOnce ==
    /\ (income.pc = "sleep" /\ income.wake_at = StartTime)
          => SumOfCoins(UserIds) = 0
    /\ income.pc = "credit"
          => SumOfCoins(UserIds) + SumOfRows(income.rows)
                = SumOfItems(DOMAIN inventory)
    /\ (income.pc = "sleep" /\ income.wake_at > StartTime)
          => SumOfCoins(UserIds) = SumOfItems(DOMAIN inventory)

\* C20 witness: the tick has credited an account, and an accept has since
\* moved an item away from an account whose row is still to be credited.
C20_Witness ==
    /\ income.pc = "credit"
    /\ \E u \in UserIds : coins[u] > 0
    /\ \E r \in income.rows : r.income > OwnedIncome(r.tg_id)

(***************************************************************************)
(* Properties of the pack draw (checked under SpecDraws).                  *)
(***************************************************************************)
InDraw(t) ==
    t.pc \in {"free_bulk", "free_pick", "free_create", "free_insert",
              "buy_slot", "buy_insert"}
Requested(t) == IF t.pc \in {"buy_slot", "buy_insert"} THEN t.count ELSE FREE_PACK
Completed(t) == t \in {Done("pack"), Done("bought")}

\* C15: every completed pack draw creates exactly the requested number of
\* new inventory items, all owned by the requesting account (5 for a free
\* pack, count for a purchase), whatever the catalog holds: a draw starts
\* with no item granted, each of its steps grants nothing or one item owned
\* by its account, and it completes with the item that makes the number
\* requested, not before and not after.
C15_DrawGrantsCount ==
    /\ [](\A k \in TaskIds :
            InDraw(tasks[k]) => tasks[k].i < Requested(tasks[k]))
    /\ [][\A k \in TaskIds :
            /\ (~InDraw(tasks[k]) /\ InDraw(tasks'[k])) => tasks'[k].i = 0
            /\ (InDraw(tasks[k]) /\ tasks'[k] # tasks[k])
                  => \/ /\ inventory' = inventory
                        /\ InDraw(tasks'[k])
                        /\ tasks'[k].i = tasks[k].i
                        /\ tasks'[k].uid = tasks[k].uid
                        /\ Requested(tasks'[k]) = Requested(tasks[k])
                     \/ /\ \E c \in DOMAIN cards :
                              inventory' = Append(inventory,
                                  [user_id |-> tasks[k].uid, card_id |-> c])
                        /\ IF tasks[k].i + 1 = Requested(tasks[k])
                           THEN Completed(tasks'[k])
                           ELSE /\ InDraw(tasks'[k])
                                /\ tasks'[k].i = tasks[k].i + 1
                                /\ tasks'[k].uid = tasks[k].uid
                                /\ Requested(tasks'[k]) = Requested(tasks[k])
            /\ (Completed(tasks'[k]) /\ tasks'[k] # tasks[k])
                  => /\ InDraw(tasks[k])
                     /\ tasks[k].i + 1 = Requested(tasks[k])
                     /\ Len(inventory') = Len(inventory) + 1]_vars

\* C15 witness: a free pack and a purchase of two cards are both complete,
\* and the account owns the seven items.
C15_Witness ==
    /\ \E k \in TaskIds : tasks[k] = Done("pack")
    /\ \E k \in TaskIds : tasks[k] = Done("bought")
    /\ Len(inventory) = FREE_PACK + SHOP["buy_2"].count
    /\ \A i \in DOMAIN inventory : inventory[i].user_id = 1

\* C17: in a pack draw that starts from an empty catalog a rolled rarity
\* reuses the definition created earlier in the same draw, in the free pack
\* and in the purchase alike: while the draw is the only handler that has
\* run, every definition in the catalog is one it created, and it creates
\* a definition only of a rarity the catalog does not hold yet.
C17_DrawReusesCreated ==
    [][\A k \in TaskIds :
          (/\ free_create(k) \/ buy_create(k)
           /\ tasks[k].n = 0
           /\ \A j \in TaskIds \ {k} : tasks[j] = Idle)
              => \A c \in DOMAIN cards :
                    cards[c].rarity # cards'[Len(cards')].rarity]_vars

\* C19: when the catalog is non-empty but has fewer than count entries and
\* the rolled rarity has no definition, the draw creates a card definition
\* of that rarity with the rarity's default income and grants it, in the
\* purchase as in the free pack: the free pack goes on to the INSERT INTO
\* cards of that rarity and grants the row it returns, and the slot of a
\* purchase adds a definition of the rolled rarity to the catalog.
C19_MissingRarityIsCreated ==
    [][\A k \in TaskIds :
          /\ \A rarity \in Rolled :
                /\ (/\ free_rolled(k, rarity)
                    /\ tasks[k].n > 0 /\ tasks[k].n < FREE_PACK
                    /\ CardsOf(rarity, Len(cards)) = {})
                      => /\ tasks'[k].pc = "free_create"
                         /\ tasks'[k].rarity = rarity
                /\ (/\ buy_rolled(k, rarity)
                    /\ tasks[k].n < tasks[k].count
                    /\ CardsOf(rarity, Len(cards)) = {})
                      => /\ Len(cards') = Len(cards) + 1
                         /\ cards'[Len(cards')] = NewCard(rarity)
          /\ free_create(k)
                => /\ cards' = Append(cards, NewCard(tasks[k].rarity))
                   /\ tasks'[k].pc = "free_insert"
                   /\ tasks'[k].c = Len(cards')
          /\ free_insert(k)
                => inventory' = Append(inventory,
                      [user_id |-> tasks[k].uid, card_id |-> tasks[k].c])]_vars

(***************************************************************************)
(* Properties of the trade engine (checked under SpecTrade).               *)
(***************************************************************************)
Resolved(t) == trades[t].status # "pending"
OfferedItem(k) == tasks[k].tr.offered_inventory_id

\* C3: a trade offer's status leaves 'pending' at most once: once an offer
\* is accepted, rejected or cancelled, no later step changes its status.
C3_StatusSetOnce ==
    [][\A t \in DOMAIN trades :
          Resolved(t) => trades'[t].status = trades[t].status]_vars

\* C4: an accept of an offer that was already resolved (accepted, rejected
\* or cancelled) when the accept read it leaves every item's owner
\* unchanged: only the accept that takes the offer out of 'pending' moves
\* the item.
C4_ResolvedAcceptKeepsOwner ==
    [][\A k \in TaskIds :
          (accept_transfer(k) /\ tasks[k].tr.status # "pending")
              => inventory' = inventory]_vars

\* C5: accept re-checks ownership: when the offered item is no longer owned
\* by the offer's from_user, the accept leaves the item's owner unchanged.
C5_AcceptRechecksOwner ==
    [][\A k \in TaskIds :
          (accept_transfer(k) /\ OwnerOf(OfferedItem(k)) # tasks[k].tr.from_user)
              => inventory' = inventory]_vars

\* C6: every inventory item has exactly one owner and that owner is an
\* existing account; no step of createOffer, accept or reject removes an
\* item, adds a copy of one or changes which card an item is.
C6_OneOwner ==
    /\ [](\A i \in DOMAIN inventory : inventory[i].user_id \in accounts)
    /\ [][/\ DOMAIN inventory' = DOMAIN inventory
          /\ \A i \in DOMAIN inventory :
                inventory'[i].card_id = inventory[i].card_id]_vars

\* C6 witness: the offered item has been passed on, by two accepted offers,
\* to the third account.
C6_Witness ==
    /\ inventory[1].user_id = NumUsers
    /\ \A t \in DOMAIN trades : trades[t].status = "accepted"
    /\ Len(trades) = MaxTrades

\* C7: an offer row is created only if, at the instant of the INSERT, the
\* offered item is owned by the offer's from_user.
C7_OfferByOwner ==
    [][Len(trades') > Len(trades)
          => OwnerOf(trades'[Len(trades')].offered_inventory_id)
                = trades'[Len(trades')].from_user]_vars

\* C8: an accept issued by a user other than the offer's to_user fails and
\* changes neither the offer's status nor any item's owner: the handler
\* returns at the recipient test, and only the recipient's accept reaches
\* the two UPDATE statements.
C8_AcceptOnlyByRecipient ==
    [][\A k \in TaskIds :
          /\ \A uid \in UserIds, tr_id \in TradeIds :
                (/\ cb_trade_accept(k, uid, tr_id)
                 /\ HasTrade(tr_id)
                 /\ trades[tr_id].to_user # uid)
                    => /\ tasks'[k] = Done("not_recipient")
                       /\ UNCHANGED <<trades, inventory>>
          /\ (accept_transfer(k) \/ accept_status(k))
                => tasks[k].uid = trades[tasks[k].tr_id].to_user]_vars

\* C8 witness: an accept by a non-recipient has been answered with the
\* refusal while the offer is still pending and the item still the
\* offerer's.
C8_Witness ==
    \E k \in TaskIds, t \in DOMAIN trades :
        /\ tasks[k] = Done("not_recipient")
        /\ trades[t].status = "pending"
        /\ trades[t].to_user # trades[t].from_user
        /\ OwnerOf(trades[t].offered_inventory_id) = trades[t].from_user

\* C9: a reject changes an offer's status only when it is issued by the
\* offer's to_user: a reject by any other user, or for an offer that does
\* not exist, leaves every offer's status unchanged; and no reject changes
\* an item's owner.
C9_RejectOnlyByRecipient ==
    [][\A k \in TaskIds :
          reject_update(k)
              => /\ inventory' = inventory
                 /\ (\/ ~HasTrade(tasks[k].tr_id)
                     \/ trades[tasks[k].tr_id].to_user # tasks[k].uid)
                        => trades' = trades]_vars

\* C10: while an offer is pending its offerer can cancel it: some step of
\* the program takes the offer to status 'cancelled'.
C10_PendingCanBeCancelled ==
    \A t \in DOMAIN trades :
        trades[t].status = "pending"
            => ENABLED (NextTrade /\ trades'[t].status = "cancelled")

====
